---- MODULE Spec2Model ----
(***************************************************************************)
(* Model of tmap/tda/plot.py: the Color class (target ingestion, per-node  *)
(* aggregation, quartile rescaling, hue mapping) and get_arrows.           *)
(*                                                                         *)
(* Numbers are exact: a rescaled value is a reduced fraction <<n, d>>, a   *)
(* percentile is kept multiplied by 4.  Floating-point rounding of numpy   *)
(* and sklearn is not modelled; inputs are small integers, for which the   *)
(* quartiles and the band bounds are exact in binary floating point.       *)
(* Strings are sequences of character codes, so that sorting them is the   *)
(* lexicographic order LabelEncoder (np.unique) uses.                      *)
(***************************************************************************)
EXTENDS Integers, Sequences, FiniteSets, TLC

VARIABLES color, call, ret

vars == <<color, call, ret>>

\* ---------------------------------------------------------------- bounds
MaxLen == 5
MaxVal == 5
MaxSamples == 3
MaxNodes == 2
MaxArrowNodes == 2
MaxModeLen == 4
MaxCode == 2

\* ------------------------------------------------------------ arithmetic
\* float('nan'): an entry that compares False with everything
NaN == -1

RECURSIVE GCD(_, _)
GCD(a, b) == IF b = 0 THEN a ELSE GCD(b, a % b)

\* the fraction n/d (n >= 0, d > 0) in lowest terms
Rat(n, d) == LET g == GCD(n, d) IN <<n \div g, d \div g>>

Zero == <<0, 1>>
One == <<1, 1>>
RatEq(x, y) == x[1] * y[2] = y[1] * x[2]
RatLeq(x, y) == x[1] * y[2] <= y[1] * x[2]

SetMin(S) == CHOOSE x \in S : \A y \in S : x <= y
SetMax(S) == CHOOSE x \in S : \A y \in S : y <= x

RECURSIVE Insert(_, _)
Insert(x, s) ==
    IF s = <<>> THEN <<x>>
    ELSE IF x <= Head(s) THEN <<x>> \o s
    ELSE <<Head(s)>> \o Insert(x, Tail(s))

RECURSIVE NpSort(_)
NpSort(s) == IF s = <<>> THEN <<>> ELSE Insert(Head(s), NpSort(Tail(s)))

HasNaN(target) == \E i \in 1..Len(target) : target[i] = NaN

\* 4 * np.percentile(target, 25 * p), linear interpolation between the two
\* order statistics around position p * (n - 1) / 4 (0-based)
Percentile4(target, p) ==
    LET s == NpSort(target)
        n == Len(s)
        k == p * (n - 1)
        lo == k \div 4
        r == k % 4
        hi == IF lo + 2 <= n THEN lo + 2 ELSE n
    IN 4 * s[lo + 1] + r * (s[hi] - s[lo + 1])

\* ------------------------------------------------------- _rescale_target
\* the result of a 0/0 or inf - inf in the scaler (no fraction)
RatNaN == <<0, 0>>

\* Python's any() over an index array: true iff some index is non-zero
\* (model positions are 1-based, the array's are 0-based)
AnyIndex(idx) == \E i \in idx : i - 1 # 0

\* lower end, in quarters, of the feature_range of the four scalers
\* (0: min..q1, 1: q1..median, 2: median..q3, 3: q3..max)
ScalerLow_swapped(b) == IF b = 1 THEN 2 ELSE IF b = 2 THEN 1 ELSE b

ScalerLow(b) == b

\* sklearn without _handle_zeros_in_scale: a zero data range gives inf * 0
MinMaxScale_nozero(target, idx, lo4) ==
    LET dmin == SetMin({target[i] : i \in idx})
        dmax == SetMax({target[i] : i \in idx})
    IN [i \in idx |->
          IF dmax = dmin THEN RatNaN
          ELSE Rat(lo4 * (dmax - dmin) + (target[i] - dmin),
                   4 * (dmax - dmin))]

\* min_ left out of X * scale_ + min_: the band is not shifted to start at 0
MinMaxScale_noshift(target, idx, lo4) ==
    LET dmin == SetMin({target[i] : i \in idx})
        dmax == SetMax({target[i] : i \in idx})
        R == IF dmax = dmin THEN 1 ELSE dmax - dmin
    IN [i \in idx |-> Rat(lo4 * R + target[i], 4 * R)]

\* MinMaxScaler(feature_range = (lo4/4, lo4/4 + 0.25)).fit_transform on the
\* entries at idx; a zero data range is replaced by 1
MinMaxScale(target, idx, lo4) ==
    LET dmin == SetMin({target[i] : i \in idx})
        dmax == SetMax({target[i] : i \in idx})
        R == IF dmax = dmin THEN 1 ELSE dmax - dmin
    IN [i \in idx |-> Rat(lo4 * R + (target[i] - dmin), 4 * R)]

\* scaler.fit_transform(target[index]) if any(index) else np.zeros(...)
BandTransform(target, idx, b) ==
    IF AnyIndex(idx) THEN MinMaxScale(target, idx, ScalerLow(b))
    ELSE [i \in idx |-> Zero]

\* q1, median, q3 (times 4); NaN as soon as one entry is NaN
Quartiles(target) ==
    IF HasNaN(target) THEN <<NaN, NaN, NaN>>
    ELSE <<Percentile4(target, 1), Percentile4(target, 2),
           Percentile4(target, 3)>>

\* index_min_q1, index_q1_median, index_median_q3, index_q3_max; every
\* comparison with a NaN quartile is False
BandIndex(target) ==
    LET n == Len(target)
        q == Quartiles(target)
        ok == ~HasNaN(target)
    IN <<{i \in 1..n : ok /\ 4 * target[i] <= q[1]},
         {i \in 1..n : ok /\ 4 * target[i] >= q[1] /\ 4 * target[i] <= q[2]},
         {i \in 1..n : ok /\ 4 * target[i] >= q[2] /\ 4 * target[i] <= q[3]},
         {i \in 1..n : ok /\ 4 * target[i] >= q[3]}>>

\* fit_transform raises ValueError on an array with 0 samples
RescaleErr(target) ==
    IF \E b \in 1..4 : AnyIndex(BandIndex(target)[b])
                       /\ BandIndex(target)[b] = {}
    THEN "ValueError" ELSE "none"

\* an array of ones where the code starts from zeros
NpZeros_ones(n) == [i \in 1..n |-> One]

\* rescaled_target = np.zeros(target.shape): a position no band is written
\* to keeps this entry
NpZeros(n) == [i \in 1..n |-> Zero]

RescaleTarget(target) ==
    LET n == Len(target)
        q == Quartiles(target)
        index == BandIndex(target)
        target_min_q1 == BandTransform(target, index[1], 0)
        target_q1_median == BandTransform(target, index[2], 1)
        target_median_q3 == BandTransform(target, index[3], 2)
        q3_max0 == BandTransform(target, index[4], 3)
        \* all(target_q3_max == 0.75): every entry is the band's lower bound
        q3_max1 ==
            IF \A i \in index[4] : q3_max0[i] = <<3, 4>>
            THEN [i \in index[4] |-> One]
            ELSE q3_max0
        \* q1 == median == q3 (False when the quartiles are NaN)
        target_q3_max ==
            IF ~HasNaN(target) /\ q[1] = q[2] /\ q[2] = q[3]
            THEN [i \in index[4] |->
                    IF q3_max1[i] # <<3, 4>> THEN q3_max1[i] ELSE Zero]
            ELSE q3_max1
    \* written in the order median_q3, q1_median, min_q1, q3_max: the last
    \* band written to a position is the one that stays
    IN [i \in 1..n |->
          IF i \in index[4] THEN target_q3_max[i]
          ELSE IF i \in index[1] THEN target_min_q1[i]
          ELSE IF i \in index[2] THEN target_q1_median[i]
          ELSE IF i \in index[3] THEN target_median_q3[i]
          ELSE NpZeros(n)[i]]

\* -------------------------------------------------------- _get_hex_color
HexDigit(n) ==
    <<"0", "1", "2", "3", "4", "5", "6", "7",
      "8", "9", "a", "b", "c", "d", "e", "f">>[n + 1]

\* "%02x" of a channel in 0..255
Hex2(n) == HexDigit(n \div 16) \o HexDigit(n % 16)

\* colorsys.hsv_to_rgb((1 - i) * 240 / 360, 1.0, 0.75), each channel then
\* int(c * 255); i = a/b in [0, 1], so 6h = 4(b - a)/b
HsvToRgb255(i) ==
    LET a == i[1]
        b == i[2]
        h6 == 4 * (b - a)
        ii == (h6 \div b) % 6
        f == h6 % b
        v == 765 \div 4
        p == 0
        q == (765 * (b - f)) \div (4 * b)
        t == (765 * f) \div (4 * b)
    IN CASE ii = 0 -> <<v, t, p>>
         [] ii = 1 -> <<q, v, p>>
         [] ii = 2 -> <<p, v, t>>
         [] ii = 3 -> <<p, q, v>>
         [] ii = 4 -> <<t, p, v>>
         [] ii = 5 -> <<v, p, q>>

\* int() of a NaN raises ValueError
GetHexColor(i) ==
    IF i = RatNaN THEN "ValueError"
    ELSE LET c == HsvToRgb255(i)
         IN "#" \o Hex2(c[1]) \o Hex2(c[2]) \o Hex2(c[3])

\* ------------------------------------------------- the rescaler on its own
NoColor == [constructed |-> FALSE]
NoCall == [op |-> "none"]
NoRet == [err |-> "none"]

Vectors == UNION {[1..n -> (0..MaxVal) \cup {NaN}] : n \in 1..MaxLen}

\* the input vector is drawn at the start, the one step applies the function
Pending == [err |-> "pending"]

InitRescale ==
    /\ color = NoColor
    /\ call \in {[op |-> "_rescale_target", target |-> t] : t \in Vectors}
    /\ ret = Pending

CallRescale ==
    /\ call.op = "_rescale_target"
    /\ ret = Pending
    /\ ret' = IF RescaleErr(call.target) # "none"
              THEN [err |-> RescaleErr(call.target)]
              ELSE [err |-> "none", value |-> RescaleTarget(call.target)]
    /\ UNCHANGED <<color, call>>

NextRescale == CallRescale

SpecRescale == InitRescale /\ [][NextRescale]_vars

Rescaled == call.op = "_rescale_target" /\ ret # Pending

Returned == ret.err = "none"

IsConstant(target) == \A i \in 1..Len(target) : target[i] = target[1]

StrictlyIncreasing(target) ==
    \A i \in 1..(Len(target) - 1) : target[i] < target[i + 1]

InUnit(x) == x[2] > 0 /\ 0 <= x[1] /\ x[1] <= x[2]

\* C1: every entry of the vector _rescale_target returns lies in [0, 1],
\* for every input vector (ties, skew, constant, NaN entries included).
C1_OutputInUnitInterval ==
    Rescaled =>
        /\ Returned
        /\ \A i \in 1..Len(call.target) : InUnit(ret.value[i])

\* a skewed vector with ties, some entry strictly inside (0, 1)
C1_Witness ==
    /\ Rescaled /\ Returned
    /\ Len(call.target) >= 4
    /\ \E i, j \in 1..Len(call.target) : i # j /\ call.target[i] = call.target[j]
    /\ \E i \in 1..Len(call.target) :
          ret.value[i] # Zero /\ ret.value[i] # One /\ InUnit(ret.value[i])

\* C2: on a constant vector _rescale_target does not raise and gives every
\* entry the same (proper) rescaled value.
C2_ConstantOneValue ==
    (Rescaled /\ ~HasNaN(call.target) /\ IsConstant(call.target)) =>
        /\ Returned
        /\ \A i \in 1..Len(call.target) :
              /\ ret.value[i] # RatNaN
              /\ ret.value[i] = ret.value[1]

C2_Witness ==
    /\ Rescaled /\ Returned
    /\ ~HasNaN(call.target) /\ IsConstant(call.target)
    /\ Len(call.target) >= 3
    /\ \A i \in 1..Len(call.target) : ret.value[i] = One

\* C3: on a strictly increasing vector the output is non-decreasing in the
\* index, inside the bands and across their boundaries.
C3_MonotoneOnIncreasing ==
    (Rescaled /\ ~HasNaN(call.target) /\ StrictlyIncreasing(call.target)) =>
        /\ Returned
        /\ \A i \in 1..(Len(call.target) - 1) :
              RatLeq(ret.value[i], ret.value[i + 1])

\* an unevenly spaced increasing vector whose median lies in two bands
C3_Witness ==
    /\ Rescaled /\ Returned
    /\ ~HasNaN(call.target) /\ StrictlyIncreasing(call.target)
    /\ Len(call.target) = 5
    /\ call.target[2] - call.target[1] # call.target[3] - call.target[2]
    /\ BandIndex(call.target)[2] \cap BandIndex(call.target)[3] # {}


\* ------------------------------------------------------ strings and labels
\* a string is the sequence of its character codes; Python and numpy compare
\* strings code point by code point
\* shorter strings first (the numeric order of digit strings)
RECURSIVE LexLess_shortlex(_, _)
LexLess_shortlex(s, t) ==
    IF Len(s) # Len(t) THEN Len(s) < Len(t)
    ELSE IF s = <<>> THEN FALSE
    ELSE IF Head(s) # Head(t) THEN Head(s) < Head(t)
    ELSE LexLess_shortlex(Tail(s), Tail(t))

RECURSIVE LexLess(_, _)

LexLess(s, t) ==
    IF s = <<>> THEN t # <<>>
    ELSE IF t = <<>> THEN FALSE
    ELSE IF Head(s) # Head(t) THEN Head(s) < Head(t)
    ELSE LexLess(Tail(s), Tail(t))

\* np.unique / sorted(set(...)): the distinct strings in increasing order
RECURSIVE SortedUnique(_)
SortedUnique(S) ==
    IF S = {} THEN <<>>
    ELSE LET m == CHOOSE x \in S : \A y \in S \ {x} : LexLess(x, y)
         IN <<m>> \o SortedUnique(S \ {m})

RECURSIVE Digits(_)
Digits(n) ==
    IF n < 10 THEN <<48 + n>> ELSE Digits(n \div 10) \o <<48 + (n % 10)>>

\* ndarray.astype(str) of one entry: "10" in an integer array, "10.0" or
\* "nan" in a float array
AsTypeStr(v, isFloat) ==
    IF v = NaN THEN <<110, 97, 110>>
    ELSE IF isFloat THEN Digits(v) \o <<46, 48>>
    ELSE Digits(v)

\* --------------------------------------------------------- Color.__init__
\* the values the model draws targets from: numbers (NaN makes the array a
\* float array) and the strings "b", "ab", "B"
NumPool == {NaN, 2, 10}
StrPool == {<<98>>, <<97, 98>>, <<66>>}

Dtypes == {"numerical", "categorical", "ordinal"}
TargetBys == {"sample", "node", "edge"}

\* target: None, a list/array of numbers, a list/array of strings, or a
\* dict node index -> number holding every index 0..n-1
InitArgs ==
    {[op |-> "__init__", form |-> "none", vals |-> <<>>,
      dtype |-> d, target_by |-> b] : d \in Dtypes, b \in TargetBys}
    \cup
    {[op |-> "__init__", form |-> f, vals |-> v, dtype |-> d, target_by |-> b] :
        f \in {"array", "dict"},
        v \in UNION {[1..n -> NumPool] : n \in 1..MaxSamples},
        d \in Dtypes, b \in TargetBys}
    \cup
    {[op |-> "__init__", form |-> "strings", vals |-> v,
      dtype |-> d, target_by |-> b] :
        v \in UNION {[1..n -> StrPool] : n \in 1..MaxSamples},
        d \in Dtypes, b \in TargetBys}

ValidDtype_any(d) == TRUE

ValidDtype(d) == d \in {"numerical", "categorical"}

ValidTargetBy(b) == b \in {"sample", "node"}

\* the array after lines 46-55: a dict is copied into np.zeros (floats); a
\* list of numbers is a float array iff it holds a NaN
IsFloatArray(a) == a.form = "dict" \/ (a.form = "array" /\ HasNaN(a.vals))

\* type(target[0][0]) is int, float or a numpy number
IsNumeric(a) == a.form \in {"array", "dict"}

\* target.astype(str), entry by entry
Labels(a) ==
    IF a.form = "strings" THEN a.vals
    ELSE [i \in 1..Len(a.vals) |-> AsTypeStr(a.vals[i], IsFloatArray(a))]

\* LabelEncoder.fit: classes_ = np.unique(y)
FitClasses(y) == SortedUnique({y[i] : i \in 1..Len(y)})

\* LabelEncoder.transform: the position of each entry in classes_
Transform(classes, y) ==
    [i \in 1..Len(y) |->
        (CHOOSE c \in 1..Len(classes) : classes[c] = y[i]) - 1]

\* LabelEncoder.inverse_transform
InverseTransform(classes, codes) ==
    [i \in 1..Len(codes) |-> classes[codes[i] + 1]]

\* the exception __init__ raises, "none" when it returns
InitErr(a) ==
    IF a.form = "none" THEN "Exception"
    ELSE IF a.target_by = "node" /\ a.form # "dict" THEN "AttributeError"
    ELSE IF ~ValidDtype(a.dtype) THEN "ValueError"
    ELSE IF ~ValidTargetBy(a.target_by) THEN "ValueError"
    ELSE IF a.form = "dict" /\ a.target_by # "node" THEN "IndexError"
    ELSE "none"

\* the object __init__ leaves behind (lines 62-77)
NewColor(a) ==
    LET encode == ~IsNumeric(a) \/ a.dtype = "categorical"
        classes == IF encode THEN FitClasses(Labels(a)) ELSE <<>>
    IN [constructed |-> TRUE,
        encoded |-> encode,
        classes |-> classes,
        target |-> IF encode THEN Transform(classes, Labels(a)) ELSE a.vals,
        dtype |-> a.dtype,
        labels |-> Labels(a),
        target_by |-> a.target_by]

Init ==
    /\ color = NoColor
    /\ call \in InitArgs
    /\ ret = Pending

Construct ==
    /\ call.op = "__init__"
    /\ ret = Pending
    /\ ret' = [err |-> InitErr(call)]
    /\ color' = IF InitErr(call) = "none" THEN NewColor(call) ELSE NoColor
    /\ UNCHANGED call

\* ------------------------------------------------------- Color.get_colors
RECURSIVE SumOver(_, _)
SumOver(f, S) ==
    IF S = {} THEN 0
    ELSE LET x == CHOOSE y \in S : TRUE IN f[x] + SumOver(f, S \ {x})

RECURSIVE Factorial(_)
Factorial(n) == IF n <= 1 THEN 1 ELSE n * Factorial(n - 1)

\* node values are kept multiplied by MeanScale, so that every mean of at
\* most MaxSamples integers is an integer; percentiles and min-max scaling
\* give the same result on the scaled values
MeanScale == Factorial(MaxSamples)

\* np.nanmean(target[samples]) * MeanScale; NaN when every entry is NaN
NanMean(target, samples) ==
    LET good == {i \in samples : target[i] # NaN}
    IN IF good = {} THEN NaN
       ELSE SumOver(target, good) * (MeanScale \div Cardinality(good))

\* the distinct values in the order they first appear in the array
RECURSIVE NpUnique_firstSeen(_)
NpUnique_firstSeen(a) ==
    IF a = <<>> THEN <<>>
    ELSE <<Head(a)>> \o
         NpUnique_firstSeen(SelectSeq(Tail(a), LAMBDA v : v # Head(a)))

\* np.unique(a): the distinct values in increasing order
RECURSIVE SortedSet(_)
SortedSet(S) ==
    IF S = {} THEN <<>> ELSE <<SetMin(S)>> \o SortedSet(S \ {SetMin(S)})

NpUnique(a) == SortedSet({a[i] : i \in 1..Len(a)})

\* the loop of scipy.stats.mode over the scores: a score replaces the most
\* frequent one only when its count is strictly larger
RECURSIVE ModeScan(_, _, _, _)
ModeScan(a, scores, oldmostfreq, oldcounts) ==
    IF scores = <<>> THEN oldmostfreq
    ELSE LET score == Head(scores)
             counts == Cardinality({i \in 1..Len(a) : a[i] = score})
         IN ModeScan(a, Tail(scores),
                     IF counts > oldcounts THEN score ELSE oldmostfreq,
                     IF counts > oldcounts THEN counts ELSE oldcounts)

\* stats.mode(a)[0][0] of the values a, in the order the node lists them
StatsMode(a) == ModeScan(a, NpUnique(a), 0, 0)

\* the values at the given positions, in increasing order of position
RECURSIVE TakeValues(_, _)
TakeValues(target, samples) ==
    IF samples = {} THEN <<>>
    ELSE <<target[SetMin(samples)]>> \o
         TakeValues(target, samples \ {SetMin(samples)})

\* stats.mode(codes[samples])[0][0]: the most frequent value, the smallest
\* of them on a tie
Mode(target, samples) == StatsMode(TakeValues(target, samples))

\* a graph's nodes: node id k (0-based) holds the sample positions
\* nodes[k+1]; the model's nodes are runs of consecutive samples (targets
\* range over every arrangement of values, so a node can hold any values)
Graphs(n) ==
    UNION {[1..m -> {i..j : i, j \in 1..n} \ {{}}] : m \in 1..MaxNodes}

\* the graphs a Color is asked to colour: nodes over its samples, or, for a
\* node-level target, the nodes 0..n-1 the target dict was keyed by
GraphsOf(c) ==
    IF c.target_by = "node"
    THEN {[k \in 1..Len(c.target) |-> {1}]}
    ELSE Graphs(Len(c.target))

\* target_in_node for node id k - 1
TargetInNode(c, nodes, k) == IF c.target_by = "node" THEN {k} ELSE nodes[k]

\* node_color_target (lines 148-160)
NodeColorTarget(c, nodes) ==
    [k \in 1..Len(nodes) |->
        IF c.dtype = "categorical"
        THEN Mode(c.target, TargetInNode(c, nodes, k))
        ELSE NanMean(c.target, TargetInNode(c, nodes, k))]

\* the caller's colour table: None, or a dict label -> colour name
NoCmap == [isDict |-> FALSE]
CmapTables(labels) ==
    {[isDict |-> TRUE, tbl |-> t] :
        t \in UNION {[K -> {"red", "green"}] : K \in SUBSET labels}}

\* cmap.get(label, 'blue')
CmapGet(cmap, label) ==
    IF label \in DOMAIN cmap.tbl THEN cmap.tbl[label] ELSE "blue"

\* categorical node values sent to the evenly spaced ladder over the classes
\* instead of the rescaler
GetColorsResult_ladder(c, nodes, cmap) ==
    LET node_color_target == NodeColorTarget(c, nodes)
        idx == IF c.dtype = "categorical" /\ Len(c.classes) > 1
               THEN [k \in 1..Len(nodes) |->
                       Rat(node_color_target[k], Len(c.classes) - 1)]
               ELSE RescaleTarget(node_color_target)
    IN [err |-> "none",
        node_color_target |-> node_color_target,
        idx |-> idx,
        colors |-> [k \in 1..Len(nodes) |-> GetHexColor(idx[k])]]

\* get_colors rescales the node values whatever the dtype, and never looks
\* at cmap
GetColorsResult(c, nodes, cmap) ==
    LET node_color_target == NodeColorTarget(c, nodes)
        idx == RescaleTarget(node_color_target)
    IN [err |-> "none",
        node_color_target |-> node_color_target,
        idx |-> idx,
        colors |-> [k \in 1..Len(nodes) |-> GetHexColor(idx[k])]]

GetColors ==
    /\ call.op = "__init__"
    /\ color.constructed
    /\ \E nodes \in GraphsOf(color) :
       \E cmap \in {NoCmap} \cup
                   {[isDict |-> TRUE, tbl |-> [l \in K |-> "red"]] :
                        K \in IF color.dtype = "categorical"
                              THEN {{color.labels[1]}} ELSE {}} :
          /\ call' = [op |-> "get_colors", nodes |-> nodes, cmap |-> cmap]
          /\ ret' = GetColorsResult(color, nodes, cmap)
    /\ UNCHANGED color

\* ------------------------------------------------ Color.get_sample_colors
\* line 175
NeedsSampleTarget_numerical(c) ==
    c.target_by # "sample" /\ c.dtype = "numerical"

NeedsSampleTarget(c) == c.target_by # "sample"

\* np.arange(0.0, 1.1, 1.0 / (k - 1)) zipped with the k sorted labels: the
\* i-th label (0-based) gets i / (k - 1)
Ladder(sortedLabels) ==
    LET k == Len(sortedLabels)
    IN [l \in {sortedLabels[i] : i \in 1..k} |->
          Rat((CHOOSE i \in 1..k : sortedLabels[i] = l) - 1, k - 1)]

GetSampleColorsResult(c, cmap) ==
    IF NeedsSampleTarget(c) THEN [err |-> "IOError"]
    ELSE IF c.dtype = "numerical" THEN
        \* an encoded target is 1-D: fit_transform refuses it, and so does
        \* target_q3_max[:, 0] when no band reaches the scaler
        IF c.encoded
        THEN [err |-> IF Len(c.target) = 1 THEN "IndexError" ELSE "ValueError"]
        \* target2idx is bound in the categorical branch only
        ELSE [err |-> "UnboundLocalError"]
    ELSE
        LET labels == InverseTransform(c.classes, c.target)
            sorted == SortedUnique({labels[i] : i \in 1..Len(labels)})
        IN IF Len(sorted) - 1 = 0 THEN [err |-> "ZeroDivisionError"]
           ELSE LET target2idx == Ladder(sorted)
                IN [err |-> "none",
                    target2idx |-> target2idx,
                    colors |->
                      IF cmap.isDict
                      THEN [i \in 1..Len(labels) |-> CmapGet(cmap, labels[i])]
                      ELSE [i \in 1..Len(labels) |->
                              GetHexColor(target2idx[labels[i]])]]

GetSampleColors ==
    /\ call.op = "__init__"
    /\ color.constructed
    /\ \E cmap \in {NoCmap} \cup
                   CmapTables({color.labels[i] : i \in 1..Len(color.labels)}) :
          /\ call' = [op |-> "get_sample_colors", cmap |-> cmap]
          /\ ret' = GetSampleColorsResult(color, cmap)
    /\ UNCHANGED color

Next == Construct \/ GetColors \/ GetSampleColors

Spec == Init /\ [][Next]_vars

\* ------------------------------------------------------------ properties
Constructed == call.op = "__init__" /\ ret # Pending
NodeColors == call.op = "get_colors"
SampleColors == call.op = "get_sample_colors"
LabelSet(c) == {c.labels[i] : i \in 1..Len(c.labels)}

\* C4: per-sample colouring of a numerical sample-level Target returns the
\* pair (colors, lookup), colors being HueMapper of the rescaled target, one
\* per sample in sample order.
C4_NumericalSampleColorsPair ==
    (SampleColors /\ color.dtype = "numerical" /\ color.target_by = "sample") =>
        /\ ret.err = "none"
        /\ ret.colors = [i \in 1..Len(color.target) |->
                           GetHexColor(RescaleTarget(color.target)[i])]

\* C5 as claimed: in get_colors a categorical node's colour is HueMapper of
\* its mode label's place i/(k-1) on the ladder over the k sorted labels.
C5_CategoricalNodeColorByLabelAlone ==
    (NodeColors /\ color.dtype = "categorical" /\ Len(color.classes) > 1) =>
        \A k \in 1..Len(call.nodes) :
            ret.colors[k] =
                GetHexColor(Rat(ret.node_color_target[k], Len(color.classes) - 1))

\* C5 as amended: get_colors sends the mode codes of a categorical Target
\* through the quantile rescaler too; a node's colour is HueMapper of its
\* rescaled mode code, and nodes with one mode label share one colour.
C5_CategoricalNodeColorRescaled ==
    (NodeColors /\ color.dtype = "categorical") =>
        /\ ret.err = "none"
        /\ \A k \in 1..Len(call.nodes) :
              /\ ret.node_color_target[k] \in 0..(Len(color.classes) - 1)
              /\ ret.colors[k] =
                    GetHexColor(RescaleTarget(ret.node_color_target)[k])
        /\ \A k, j \in 1..Len(call.nodes) :
              ret.node_color_target[k] = ret.node_color_target[j]
                  => ret.colors[k] = ret.colors[j]

\* two nodes whose colours differ from the ladder's: mode codes 0 and 1 of
\* three labels are rescaled to 0 and 1
C5_Witness ==
    /\ NodeColors /\ color.dtype = "categorical"
    /\ Len(color.classes) = 3
    /\ Len(call.nodes) = 2
    /\ ret.node_color_target = <<0, 1>>
    /\ ret.colors = <<GetHexColor(Zero), GetHexColor(One)>>

\* C6: with a caller's label -> colour table, every entity of a categorical
\* Target gets the table's colour of its label, the fallback colour when the
\* label is not in the table, in get_colors and in get_sample_colors.
C6_CmapOverridesCategorical ==
    /\ (NodeColors /\ color.dtype = "categorical" /\ call.cmap.isDict) =>
          /\ ret.err = "none"
          /\ \A k \in 1..Len(call.nodes) :
                ret.colors[k] =
                    CmapGet(call.cmap,
                            color.classes[ret.node_color_target[k] + 1])
    /\ (SampleColors /\ color.dtype = "categorical"
          /\ color.target_by = "sample" /\ call.cmap.isDict) =>
          /\ ret.err = "none"
          /\ \A i \in 1..Len(color.labels) :
                ret.colors[i] = CmapGet(call.cmap, color.labels[i])

\* s comes before t in the lexicographic order of the character codes: s is
\* a proper prefix of t, or the first place they differ has the smaller code
StrictlyBefore(s, t) ==
    \E p \in 0..Len(s) :
        /\ p <= Len(t)
        /\ \A i \in 1..p : s[i] = t[i]
        /\ \/ (p = Len(s) /\ p < Len(t))
           \/ (p < Len(s) /\ p < Len(t) /\ s[p + 1] < t[p + 1])

\* C7: label encoding is a bijection between the distinct string labels and
\* the codes 0..k-1, in lexicographic order of the labels, and decoding an
\* entry's code gives back the entry's string label.
C7_LabelEncodingBijection ==
    (Constructed /\ color.constructed /\ color.encoded) =>
        LET k == Len(color.classes)
            n == Len(call.vals)
            raw(i) == IF call.form = "strings" THEN call.vals[i]
                      ELSE AsTypeStr(call.vals[i], IsFloatArray(call))
        IN /\ k = Cardinality({raw(i) : i \in 1..n})
           /\ {color.target[i] : i \in 1..n} = 0..(k - 1)
           /\ \A c \in 1..(k - 1) :
                 StrictlyBefore(color.classes[c], color.classes[c + 1])
           /\ \A i \in 1..n :
                 InverseTransform(color.classes, color.target)[i] = raw(i)
           /\ \A i, j \in 1..n :
                 (color.target[i] = color.target[j]) <=> (raw(i) = raw(j))

\* the numbers 2 and 10 declared categorical: "10" sorts before "2"
C7_Witness ==
    /\ Constructed /\ color.constructed /\ color.encoded
    /\ call.form = "array"
    /\ call.vals = <<2, 10, 2>>
    /\ color.target = <<1, 0, 1>>

\* C8: __init__ raises, and leaves no Color, when the target is None, the
\* dtype is not numerical/categorical or target_by is not sample/node,
\* whatever the other arguments; otherwise these checks raise nothing.
C8_InvalidArgumentsRejected ==
    Constructed =>
        /\ (call.form = "none" \/ call.dtype \notin {"numerical", "categorical"}
              \/ call.target_by \notin {"sample", "node"})
              => (ret.err # "none" /\ ~color.constructed)
        /\ (call.form # "none" /\ call.dtype \in {"numerical", "categorical"}
              /\ call.target_by \in {"sample", "node"})
              => ret.err \notin {"Exception", "ValueError"}
        /\ color.constructed <=> ret.err = "none"

\* a present target refused for its dtype alone
C8_Witness ==
    /\ Constructed
    /\ call.form = "strings" /\ call.dtype = "ordinal"
    /\ call.target_by = "sample"
    /\ ret.err = "ValueError" /\ ~color.constructed

\* C9: get_sample_colors on a categorical Target whose granularity is not
\* sample raises before any colour is computed.
C9_SampleColorsNeedSampleTarget ==
    (SampleColors /\ color.dtype = "categorical" /\ color.target_by # "sample") =>
        /\ ret.err = "IOError"
        /\ DOMAIN ret = {"err"}

C9_Witness ==
    /\ SampleColors
    /\ color.dtype = "categorical" /\ color.target_by = "node"
    /\ Len(color.classes) > 1
    /\ ret.err = "IOError"

\* -------------------------------------------------------------- get_arrows
\* SAFE scores are kept in tenths; node positions are integer points
Features == {"F", "G"}
ScorePool == {0, 3, 4, 6}
PosPool == {<<1, 0>>, <<-1, 0>>, <<0, 2>>}

\* threshold = log10(0.05) / log10(1 / 5001) = 0.35171..., here times 10^5
\* (rounded up, no score of the model lies between the two)
Threshold100k == 35172

\* safe_score_df >= threshold, for a score in tenths
AtLeastThreshold(score) == score * 10000 >= Threshold100k

\* safe_score_df.where(safe_score_df >= threshold, other=0)
MaskedScores(safe_score) ==
    [f \in Features |->
        [i \in 1..Len(safe_score[f]) |->
            IF AtLeastThreshold(safe_score[f][i]) THEN safe_score[f][i] ELSE 0]]

Abs(x) == IF x < 0 THEN -x ELSE x

\* the divisor of maxabs_scale: the largest absolute value, 1 when it is 0
MaxAbsDivisor(S) ==
    LET m == SetMax({Abs(x) : x \in S}) IN IF m = 0 THEN 1 ELSE m

\* x_cor and y_cor (lines 340-346) times n * RowProduct: row i of the masked
\* table is divided by its MaxAbsDivisor, multiplied by the node's
\* coordinate and averaged over the nodes
RECURSIVE ProductOver(_, _)
ProductOver(f, S) ==
    IF S = {} THEN 1
    ELSE LET x == CHOOSE y \in S : TRUE IN f[x] * ProductOver(f, S \ {x})

RowDivisors(df, n) ==
    [i \in 1..n |-> MaxAbsDivisor({df[f][i] : f \in Features})]

WeightedCoordinate(df, node_pos, n, f, axis) ==
    LET div == RowDivisors(df, n)
        all == ProductOver(div, 1..n)
        term == [i \in 1..n |-> df[f][i] * (all \div div[i]) * node_pos[i][axis]]
    IN SumOver(term, 1..n)

\* safe_score_df.sum(0) of the table the caller passed in
ColumnSums_supplied(safe_score, df) ==
    [f \in Features |-> SumOver(safe_score[f], 1..Len(safe_score[f]))]

\* safe_score_df.sum(0): by line 348 safe_score_df is the masked table
ColumnSums(safe_score, df) ==
    [f \in Features |-> SumOver(df[f], 1..Len(df[f]))]

\* scaled_arrow_df, one column per feature.  A column is kept as its
\* direction (the unscaled arrow, times a positive factor) and its length
\* max_length * all_fea_scale; a zero raw magnitude divides by zero and the
\* column is (NaN, NaN)
GetArrowsResult(node_pos, safe_score, max_length) ==
    LET n == Len(node_pos)
        df == MaskedScores(safe_score)
        sums == ColumnSums(safe_score, df)
        div == MaxAbsDivisor({sums[f] : f \in Features})
    IN [f \in Features |->
          LET x == WeightedCoordinate(df, node_pos, n, f, 1)
              y == WeightedCoordinate(df, node_pos, n, f, 2)
          IN IF x = 0 /\ y = 0
             THEN [nan |-> TRUE]
             ELSE [nan |-> FALSE, dir |-> <<x, y>>,
                   length |-> Rat(max_length * sums[f], div)]]

ArrowArgs ==
    {[op |-> "get_arrows", node_pos |-> p, safe_score |-> t, max_length |-> m] :
        p \in UNION {[1..n -> PosPool] : n \in 1..MaxArrowNodes},
        t \in UNION {[Features -> [1..n -> ScorePool]] : n \in 1..MaxArrowNodes},
        m \in {1, 2}}

InitArrows ==
    /\ color = NoColor
    /\ call \in {a \in ArrowArgs :
                    \A f \in Features : Len(a.safe_score[f]) = Len(a.node_pos)}
    /\ ret = Pending

CallGetArrows ==
    /\ call.op = "get_arrows"
    /\ ret = Pending
    /\ ret' = [err |-> "none",
               arrows |-> GetArrowsResult(call.node_pos, call.safe_score,
                                          call.max_length)]
    /\ UNCHANGED <<color, call>>

NextArrows == CallGetArrows

SpecArrows == InitArrows /\ [][NextArrows]_vars

Arrows == call.op = "get_arrows" /\ ret # Pending

SuppliedSum(f) == SumOver(call.safe_score[f], 1..Len(call.safe_score[f]))

\* C10: the feature with the single largest column sum of the significance
\* table gets a vector of length exactly max_length, and no returned vector
\* is longer than max_length.
C10_TopFeatureHasMaxLength ==
    Arrows =>
        /\ \A f \in Features :
              (\A g \in Features \ {f} : SuppliedSum(g) < SuppliedSum(f)) =>
                  /\ ~ret.arrows[f].nan
                  /\ ret.arrows[f].length = <<call.max_length, 1>>
        /\ \A f \in Features :
              ~ret.arrows[f].nan =>
                  RatLeq(ret.arrows[f].length, <<call.max_length, 1>>)

\* the raw magnitude sqrt(x^2 + y^2) of a feature's weighted mean position
\* is zero
ZeroMagnitude(f) ==
    LET df == MaskedScores(call.safe_score)
        n == Len(call.node_pos)
    IN /\ WeightedCoordinate(df, call.node_pos, n, f, 1) = 0
       /\ WeightedCoordinate(df, call.node_pos, n, f, 2) = 0

\* C11: a feature whose weighted mean position has zero magnitude is not
\* divided by zero: its vector is the zero vector, never NaN.
C11_ZeroMagnitudeGivesZeroVector ==
    Arrows => \A f \in Features : ZeroMagnitude(f) => ~ret.arrows[f].nan

\* ------------------------------------------------ the categorical aggregate
\* the encoded labels of one node's samples, in the order the node lists them
InitMode ==
    /\ color = NoColor
    /\ call \in {[op |-> "mode", codes |-> a] :
                    a \in UNION {[1..n -> 0..MaxCode] : n \in 1..MaxModeLen}}
    /\ ret = Pending

\* node_color_target[i] = stats.mode(target_in_node)[0][0] (line 158)
CallMode ==
    /\ call.op = "mode"
    /\ ret = Pending
    /\ ret' = [err |-> "none", value |-> StatsMode(call.codes)]
    /\ UNCHANGED <<color, call>>

NextMode == CallMode

SpecMode == InitMode /\ [][NextMode]_vars

Moded == call.op = "mode" /\ ret # Pending

CountOf(a, v) == Cardinality({i \in 1..Len(a) : a[i] = v})

\* C12: the categorical scalar of a node is the most frequent code among
\* its samples, the smallest such code on a tie, and it is the same for
\* every order in which the samples are listed.
C12_ModeSmallestOnTie ==
    Moded =>
        LET a == call.codes
            n == Len(a)
        IN /\ \A v \in 0..MaxCode : CountOf(a, v) <= CountOf(a, ret.value)
           /\ \A v \in 0..MaxCode :
                 CountOf(a, v) = CountOf(a, ret.value) => ret.value <= v
           /\ CountOf(a, ret.value) > 0
           /\ \A perm \in Permutations(1..n) :
                 StatsMode([i \in 1..n |-> a[perm[i]]]) = ret.value

\* a tie between two codes, the larger one listed first
C12_Witness ==
    /\ Moded
    /\ Len(call.codes) = 4
    /\ call.codes[1] = 2
    /\ CountOf(call.codes, 2) = 2 /\ CountOf(call.codes, 1) = 2
    /\ ret.value = 1

\* the column sum of a feature over the scores that reach the threshold
MaskedSum(f) ==
    LET col == call.safe_score[f]
        kept == [i \in 1..Len(col) |->
                    IF AtLeastThreshold(col[i]) THEN col[i] ELSE 0]
    IN SumOver(kept, 1..Len(col))

NaNNodes == {k \in 1..Len(call.nodes) : ret.node_color_target[k] = NaN}

\* C14: when the aggregated value of some node of a numerical Target is NaN,
\* get_colors does not raise, returns a colour for every node, and the NaN
\* node has the rescaled value 0 and the minimum (blue) colour.
C14_NaNNodeIsMinimumBand ==
    (NodeColors /\ color.dtype = "numerical" /\ NaNNodes # {}) =>
        /\ ret.err = "none"
        /\ Len(ret.colors) = Len(call.nodes)
        /\ \A k \in NaNNodes :
              /\ ret.idx[k] = <<0, 1>>
              /\ ret.colors[k] = "#0000bf"

\* a node holding only the NaN sample next to a node with a value
C14_Witness ==
    /\ NodeColors /\ color.dtype = "numerical" /\ color.target_by = "sample"
    /\ Len(call.nodes) = 2
    /\ color.target[1] = NaN
    /\ call.nodes[1] = {1}
    /\ ret.node_color_target[1] = NaN
    /\ ret.node_color_target[2] # NaN
    /\ ret.colors[1] = "#0000bf"

\* the largest and the smallest entry of a vector without NaN
MaxOf(target) == SetMax({target[i] : i \in 1..Len(target)})
MinOf(target) == SetMin({target[i] : i \in 1..Len(target)})

\* C15: for every vector with at least two distinct values, wherever its
\* entries sit (the maximum or minimum at index 0 and alone in its band
\* included), every entry equal to the maximum is rescaled to 1.0 and every
\* entry equal to the minimum to 0.
C15_ExtremesReachBothEnds ==
    (Rescaled /\ Returned /\ ~HasNaN(call.target) /\ ~IsConstant(call.target)) =>
        \A i \in 1..Len(call.target) :
            /\ call.target[i] = MaxOf(call.target) => RatEq(ret.value[i], One)
            /\ call.target[i] = MinOf(call.target) => RatEq(ret.value[i], Zero)

\* C16: get_sample_colors on a categorical sample-level Target never raises,
\* whatever the number k >= 1 of distinct labels, and returns one colour per
\* sample, equal labels receiving equal colours.
C16_CategoricalSampleColorsNeverRaise ==
    (SampleColors /\ color.dtype = "categorical"
                  /\ color.target_by = "sample") =>
        /\ ret.err = "none"
        /\ Len(ret.colors) = Len(color.labels)
        /\ \A i, j \in 1..Len(color.labels) :
              color.labels[i] = color.labels[j] =>
                  ret.colors[i] = ret.colors[j]

\* the nodes whose aggregated value is a number
ValueNodes == (1..Len(call.nodes)) \ NaNNodes

\* C17: in get_colors for a numerical Target a NaN aggregated value at one
\* node does not erase the colouring of the others: when the non-NaN node
\* values hold at least two distinct values, the nodes holding them do not
\* all receive the same colour.
C17_NaNNodeKeepsOtherColors ==
    (NodeColors /\ color.dtype = "numerical" /\ NaNNodes # {}
       /\ \E j, k \in ValueNodes :
             ret.node_color_target[j] # ret.node_color_target[k]) =>
        /\ ret.err = "none"
        /\ \E j, k \in ValueNodes : ret.colors[j] # ret.colors[k]

====
